---- MODULE Spec2Model ----
(***************************************************************************)
(* Model of lab3/machine/cpu.py: the DataPath (registers, ALU, memory),    *)
(* the ControlUnit (tick, execute loop, IP latch) and its Timer.           *)
(*                                                                         *)
(* The Decoder (machine/decoder.py), the Ports and the Logger are not part *)
(* of cpu.py.  The decoder is modelled here as the caller of the DataPath  *)
(* signals and of ControlUnit.tick(): one decode pass is a bounded         *)
(* sequence of such calls, each call one action of the model.              *)
(*                                                                         *)
(* A Python exception ends the run: err records its type and pc becomes    *)
(* "error", the rest of the state staying as it was when it was raised.    *)
(***************************************************************************)
EXTENDS Integers, Sequences, FiniteSets, TLC

VARIABLES
    \* DataPath
    data_memory, acc, buf_reg, stack_pointer, address_reg, memory_out,
    flags, alu_out, in_interruption,
    \* ControlUnit
    instructions, ip, instr, _tick, int_vector, instr_counter, ei, int_rq,
    \* ControlUnit.Timer
    time, timer_delay,
    \* position in execute() and in the decode pass
    pc, steps, signal, applied, saved, err, result,
    \* history: the last call made, timer requests raised, interrupt-service
    \* passes taken
    last, raised, serviced

dpvars == <<data_memory, acc, buf_reg, stack_pointer, address_reg, memory_out,
            flags, alu_out, in_interruption>>
cuvars == <<instructions, ip, instr, _tick, int_vector, instr_counter, ei,
            int_rq>>
tmvars == <<time, timer_delay>>
exvars == <<pc, steps, signal, applied, saved, err, result>>
hsvars == <<last, raised, serviced>>
vars == <<dpvars, cuvars, tmvars, exvars, hsvars>>

----------------------------------------------------------------------------
\* Bounds of the model

\* registers and immediates are drawn from -MaxVal..MaxVal
MaxVal == 2
\* signal invocations (tick included) in one decode pass
MaxSteps == 3
\* instructions fetched in one run
MaxInstr == 4
\* timer periods a TIMER instruction can set: 0..MaxDelay
MaxDelay == 2
\* tick() calls in a run of the timer
MaxTicks == 6

\* Program constants
MemoryCapacity == 2
InitTime == -2
InitDelay == 0
MovhShift == 24

Vals == (0 - MaxVal)..MaxVal
Operands == {"ACC", "BUF", "STACK", "MEM"}
Unary == {"INC", "DEC", "MOVH"}
Binary == {"ADD", "SUB", "MUL", "DIV", "REM"}
arithmetic_operations == Binary \cup Unary \cup {"CMP"}
Signals == {"NEXT_IP", "JMP_ARG", "DATA_IP"}
AllFlags == [z : BOOLEAN, n : BOOLEAN]

Range(s) == {s[i] : i \in DOMAIN s}
Abs(x) == IF x < 0 THEN 0 - x ELSE x

RECURSIVE Pow2(_)
Pow2(k) == IF k = 0 THEN 1 ELSE 2 * Pow2(k - 1)

----------------------------------------------------------------------------
\* Python integer arithmetic

\* the quotient rounded toward zero, as C's / rounds it
TruncDiv(a, b) ==
    IF (a < 0) = (b < 0) THEN Abs(a) \div Abs(b) ELSE 0 - (Abs(a) \div Abs(b))

\* a // b for b # 0: the quotient rounded toward negative infinity
FloorDiv(a, b) ==
    LET q == Abs(a) \div Abs(b)
        exact == q * Abs(b) = Abs(a)
    IN  IF (a < 0) = (b < 0) THEN q
        ELSE IF exact THEN 0 - q ELSE 0 - q - 1

\* a % b for b # 0: the remainder with the sign of the divisor
FloorMod(a, b) == a - b * FloorDiv(a, b)

\* a shift one bit short
ShiftLeftOneLess(a, k) == a * Pow2(k - 1)

\* a << k
ShiftLeft(a, k) == a * Pow2(k)

\* seq[i] of a Python list of length n: a negative index counts from the end
IndexInRange(i, n) == (0 - n) <= i /\ i < n
ListIndex(i, n) == IF i < 0 THEN n + i ELSE i

----------------------------------------------------------------------------
\* DataPath

\* DataPath.__init__: the memory is memory_capacity zeroes
InitMemory == [a \in 0..(MemoryCapacity - 1) |-> 0]
InitFlags == [z |-> FALSE, n |-> FALSE]

signal_latch_acc(sel, load) ==
    /\ acc' = IF sel = "DIRECT_ACC_LOAD" THEN load ELSE alu_out
    /\ UNCHANGED <<data_memory, buf_reg, stack_pointer, address_reg,
                   memory_out, flags, alu_out, in_interruption, err>>

signal_latch_address(sel, load) ==
    /\ address_reg' = IF sel = "DIRECT_ADDRESS_LOAD" THEN load ELSE alu_out
    /\ UNCHANGED <<data_memory, acc, buf_reg, stack_pointer,
                   memory_out, flags, alu_out, in_interruption, err>>

\* data_memory[address_reg] raises IndexError outside -capacity..capacity-1
\* and counts a negative index from the end of the list
memory_manager(operation) ==
    IF operation \in {"READ", "WRITE"}
       /\ ~IndexInRange(address_reg, MemoryCapacity)
    THEN /\ err' = "IndexError"
         /\ UNCHANGED dpvars
    ELSE /\ err' = err
         /\ memory_out' =
                IF operation = "READ"
                THEN data_memory[ListIndex(address_reg, MemoryCapacity)]
                ELSE memory_out
         /\ data_memory' =
                IF operation = "WRITE"
                THEN [data_memory EXCEPT
                         ![ListIndex(address_reg, MemoryCapacity)] = alu_out]
                ELSE data_memory
         /\ UNCHANGED <<acc, buf_reg, stack_pointer, address_reg, flags,
                        alu_out, in_interruption>>

signal_latch_regs(regs) ==
    /\ buf_reg' = IF "BUF_LATCH" \in regs THEN alu_out ELSE buf_reg
    /\ stack_pointer' = IF "STACK_LATCH" \in regs THEN alu_out ELSE stack_pointer
    /\ UNCHANGED <<data_memory, acc, address_reg, memory_out, flags, alu_out,
                   in_interruption, err>>

\* the value execute_alu_operation returns; out is alu_out at the call
execute_alu_operation(operation, out, value) ==
    CASE operation = "ADD" -> out + value
      [] operation = "SUB" -> out - value
      [] operation = "MUL" -> out * value
      [] operation = "DIV" -> FloorDiv(out, value)
      [] operation = "REM" -> FloorMod(out, value)
      [] operation = "INC" -> out + 1
      [] operation = "DEC" -> out - 1
      [] operation = "CMP" -> out
      [] operation = "MOVH" -> ShiftLeft(out, MovhShift)

\* a compare whose negative flag is that of the operands swapped
alu_operation_flags_swapped(operation, out, value, fl) ==
    IF operation = "CMP" THEN [z |-> out = value, n |-> value < out] ELSE fl

\* an ALU whose every operation assigns the flags as a compare does
alu_operation_flags_always(operation, out, value, fl) ==
    [z |-> out = value, n |-> out < value]

\* the flags execute_alu_operation leaves: only CMP assigns them
alu_operation_flags(operation, out, value, fl) ==
    IF operation = "CMP" THEN [z |-> out = value, n |-> out < value] ELSE fl

\* out // 0 and out % 0 raise ZeroDivisionError
alu_operation_raises(operation, value) ==
    operation \in {"DIV", "REM"} /\ value = 0

get_bus_value(bus) ==
    CASE bus = "ACC" -> acc
      [] bus = "BUF" -> buf_reg
      [] bus = "STACK" -> stack_pointer
      [] bus = "MEM" -> memory_out

\* a snapshot that takes both flags from the first operand
acc_snapshot_of_first(valves, out) ==
    IF "ACC" \in Range(valves) THEN [z |-> out = 0, n |-> out < 0] ELSE flags

\* the flags after the accumulator snapshot of alu_working
acc_snapshot(valves, out) ==
    IF "ACC" \in Range(valves) THEN [z |-> acc = 0, n |-> out < 0] ELSE flags

\* an ALU that executes the operation also on a single operand, the second
\* argument of execute_alu_operation at its default 0
alu_executes_always(operation, valves) == TRUE

\* whether alu_working calls execute_alu_operation: for INC, DEC and MOVH, and
\* for any other operation given a second operand
alu_executes(operation, valves) == operation \in Unary \/ Len(valves) > 1

alu_working(operation, valves) ==
    LET first == get_bus_value(valves[1])
        snap == acc_snapshot(valves, first)
        value == IF Len(valves) > 1 THEN get_bus_value(valves[2]) ELSE 0
        executes == alu_executes(operation, valves)
        raises == executes /\ alu_operation_raises(operation, value)
    IN  /\ IF raises
           THEN /\ alu_out' = first
                /\ flags' = snap
                /\ err' = "ZeroDivisionError"
           ELSE /\ alu_out' = IF executes
                              THEN execute_alu_operation(operation, first, value)
                              ELSE first
                /\ flags' = IF executes
                            THEN alu_operation_flags(operation, first, value, snap)
                            ELSE snap
                /\ err' = err
        /\ UNCHANGED <<data_memory, acc, buf_reg, stack_pointer, address_reg,
                       memory_out, in_interruption>>

----------------------------------------------------------------------------
\* ControlUnit.tick and the Timer

\* a timer that fires only when time reaches the period, not at its multiples
timer_hit_at_period(t, delay) == t = delay

\* time % timer_delay == 0, for timer_delay # 0
timer_hit(t, delay) == FloorMod(t, delay) = 0

\* a tick() that leaves the latches as they are
tick_latch_stale(old) == old

\* the value tick() gives the alu_out and memory_out latches
tick_latch(old) == 0

\* tick(): the latches are cleared before the timer is looked at, so they
\* are cleared also when time % 0 raises ZeroDivisionError
tick ==
    /\ _tick' = _tick + 1
    /\ alu_out' = tick_latch(alu_out)
    /\ memory_out' = tick_latch(memory_out)
    /\ IF ei
       THEN /\ time' = time + 1
            /\ IF timer_delay = 0
               THEN /\ err' = "ZeroDivisionError"
                    /\ UNCHANGED <<int_rq, raised>>
               ELSE /\ err' = err
                    /\ int_rq' = (int_rq \/ timer_hit(time + 1, timer_delay))
                    /\ raised' = IF timer_hit(time + 1, timer_delay)
                                 THEN raised + 1 ELSE raised
       ELSE UNCHANGED <<time, int_rq, raised, err>>
    /\ UNCHANGED <<data_memory, acc, buf_reg, stack_pointer, address_reg, flags,
                   in_interruption, instructions, ip, instr, int_vector,
                   instr_counter, ei, timer_delay>>

----------------------------------------------------------------------------
\* The signals one decode pass invokes, one action per call.  After a call
\* that raised, the run is over.

Raised == IF err' = "none" THEN pc' = pc ELSE pc' = "error"

\* a decode pass exists only for an opcode execute() dispatches
Dispatched ==
    {"LOAD", "STORE"} \cup arithmetic_operations
        \cup {"JMP", "JGE", "JE", "JNE"} \cup {"CALL", "RET", "IRET", "FUNC"}
        \cup {"EI", "DI", "VECTOR", "TIMER"} \cup {"PUSH", "POP"}
        \cup {"IN", "OUT", "SIGN"}

InDecode ==
    /\ pc = "decode"
    /\ err = "none"
    /\ steps < MaxSteps
    /\ instr.opcode \in Dispatched

SigFrame ==
    /\ steps' = steps + 1
    /\ Raised
    /\ UNCHANGED <<signal, applied, saved, result, serviced>>

Call(name) == [call |-> name]

SigTick ==
    /\ InDecode
    /\ tick
    /\ last' = Call("tick")
    /\ SigFrame

LatchAcc(sel, load) ==
    /\ InDecode
    /\ signal_latch_acc(sel, load)
    /\ last' = [call |-> "signal_latch_acc", sel |-> sel, load |-> load]
    /\ SigFrame
    /\ UNCHANGED <<cuvars, tmvars, raised>>

LatchAddress(sel, load) ==
    /\ InDecode
    /\ signal_latch_address(sel, load)
    /\ last' = [call |-> "signal_latch_address", sel |-> sel, load |-> load]
    /\ SigFrame
    /\ UNCHANGED <<cuvars, tmvars, raised>>

Memory(operation) ==
    /\ InDecode
    /\ memory_manager(operation)
    /\ last' = [call |-> "memory_manager", operation |-> operation]
    /\ SigFrame
    /\ UNCHANGED <<cuvars, tmvars, raised>>

LatchRegs(regs) ==
    /\ InDecode
    /\ signal_latch_regs(regs)
    /\ last' = [call |-> "signal_latch_regs", regs |-> regs]
    /\ SigFrame
    /\ UNCHANGED <<cuvars, tmvars, raised>>

Alu(operation, valves) ==
    /\ InDecode
    /\ alu_working(operation, valves)
    /\ last' = [call |-> "alu_working", operation |-> operation, valves |-> valves]
    /\ SigFrame
    /\ UNCHANGED <<cuvars, tmvars, raised>>

Valves1 == {<<a>> : a \in Operands}
Valves2 == {<<a, b>> : a \in Operands, b \in Operands}
Valves == Valves1 \cup Valves2

----------------------------------------------------------------------------
\* SpecALU: one alu_working call, with any operation and operand selectors,
\* on registers holding any contents: the last signal of a decode pass.

SigAlu == \E operation \in arithmetic_operations, valves \in Valves :
              Alu(operation, valves)

InitALU ==
    /\ data_memory = InitMemory
    /\ acc \in Vals
    /\ buf_reg \in Vals
    /\ stack_pointer \in {0, MaxVal}
    /\ address_reg = 0
    /\ memory_out \in {0 - 1, 0}
    /\ flags \in AllFlags
    /\ alu_out \in {0, 1}
    /\ in_interruption = FALSE
    /\ instructions = <<[opcode |-> "ADD", arg |-> 0], [opcode |-> "HALT", arg |-> 0]>>
    /\ ip = 0
    /\ instr = instructions[1]
    /\ _tick = 1
    /\ int_vector = 0
    /\ instr_counter = 1
    /\ ei = FALSE
    /\ int_rq = FALSE
    /\ time = InitTime
    /\ timer_delay = InitDelay
    /\ pc = "decode"
    /\ steps = MaxSteps - 1
    /\ signal = "NEXT_IP"
    /\ applied = FALSE
    /\ saved = <<>>
    /\ err = "none"
    /\ result = <<>>
    /\ last = Call("none")
    /\ raised = 0
    /\ serviced = 0

NextALU == SigAlu

SpecALU == InitALU /\ [][NextALU]_vars

----------------------------------------------------------------------------
\* The decoder's interrupt-control commands: EI and DI set and clear ei,
\* VECTOR sets the interrupt vector and TIMER the timer's period.

interrupt_command(opcode, arg) ==
    /\ ei' = CASE opcode = "EI" -> TRUE
               [] opcode = "DI" -> FALSE
               [] OTHER -> ei
    /\ int_vector' = IF opcode = "VECTOR" THEN arg ELSE int_vector
    /\ timer_delay' = IF opcode = "TIMER" THEN arg ELSE timer_delay

----------------------------------------------------------------------------
\* SpecTimer: tick() called up to MaxTicks times, with the timer's period
\* fixed at any of 0..MaxDelay, ei switched on and off between ticks, and
\* the two latches written between ticks.

TimerTick ==
    /\ pc = "decode"
    /\ err = "none"
    /\ _tick < MaxTicks
    /\ tick
    /\ last' = Call("tick")
    /\ Raised
    /\ UNCHANGED <<steps, signal, applied, saved, result, serviced>>

TimerSwitch ==
    /\ pc = "decode"
    /\ err = "none"
    /\ \E opcode \in {"EI", "DI"} :
          /\ interrupt_command(opcode, 0)
          /\ last' = [call |-> "interrupt_command", opcode |-> opcode]
    /\ ei' # ei
    /\ UNCHANGED <<dpvars, instructions, ip, instr, _tick, instr_counter,
                   int_rq, time, exvars, raised, serviced>>

TimerAlu == Alu("ADD", <<"ACC">>)

TimerRead == Memory("READ")

InitTimer ==
    /\ data_memory = [InitMemory EXCEPT ![0] = 0 - 1]
    /\ acc = MaxVal
    /\ buf_reg = 0
    /\ stack_pointer = 0
    /\ address_reg = 0
    /\ memory_out = 0
    /\ flags = InitFlags
    /\ alu_out = 0
    /\ in_interruption = FALSE
    /\ instructions = <<[opcode |-> "ADD", arg |-> 0], [opcode |-> "HALT", arg |-> 0]>>
    /\ ip = 0
    /\ instr = instructions[1]
    /\ _tick = 0
    /\ int_vector = 0
    /\ instr_counter = 1
    /\ ei \in BOOLEAN
    /\ int_rq = FALSE
    /\ time = InitTime
    /\ timer_delay \in 0..MaxDelay
    /\ pc = "decode"
    /\ steps = 0
    /\ signal = "NEXT_IP"
    /\ applied = FALSE
    /\ saved = <<>>
    /\ err = "none"
    /\ result = <<>>
    /\ last = Call("none")
    /\ raised = 0
    /\ serviced = 0

NextTimer ==
    \/ TimerTick
    \/ TimerSwitch
    \/ TimerAlu
    \/ TimerRead

SpecTimer == InitTimer /\ [][NextTimer]_vars

----------------------------------------------------------------------------
\* ControlUnit.execute

FlowOps == {"JMP", "JGE", "JE", "JNE"}
InterruptOps == {"EI", "DI", "VECTOR", "TIMER"}

NumInstr == Len(instructions)
\* instructions[ip], once the index is known to be in range
AtIp == instructions[ListIndex(ip, NumInstr) + 1]
\* self.instr before the first fetch
NoInstr == [opcode |-> "none", arg |-> 0]

\* what execute() returns: the instruction count and the tick count (the
\* output string is the ports')
execute_result_counting_halt(count, ticks) == <<count + 1, ticks>>

execute_result_ticking_halt(count, ticks) == <<count, ticks + 1>>

execute_result(count, ticks) == <<count, ticks>>

\* the loop condition, and the head of the loop body up to the dispatch:
\* HALT ends the loop and execute() returns the instruction and tick counts;
\* instructions[ip] raises IndexError for an ip outside the list
Fetch ==
    /\ pc = "fetch"
    /\ IF ~IndexInRange(ip, NumInstr)
       THEN /\ err' = "IndexError"
            /\ pc' = "error"
            /\ UNCHANGED <<instr, instr_counter, steps, signal, applied, result>>
       ELSE IF AtIp.opcode = "HALT"
       THEN /\ pc' = "done"
            /\ instr' = AtIp
            /\ result' = execute_result(instr_counter, _tick)
            /\ UNCHANGED <<instr_counter, steps, signal, applied, err>>
       ELSE /\ instr_counter < MaxInstr
            /\ instr' = AtIp
            /\ instr_counter' = instr_counter + 1
            /\ signal' = "NEXT_IP"
            /\ steps' = 0
            /\ applied' = FALSE
            /\ pc' = "decode"
            /\ UNCHANGED <<err, result>>
    /\ last' = Call("fetch")
    /\ UNCHANGED <<dpvars, instructions, ip, _tick, int_vector, ei, int_rq,
                   tmvars, saved, raised, serviced>>

\* The signals of a decode pass in a run of execute(): tick(), the direct
\* load of the instruction's argument into acc, alu_working() with its
\* default arguments, and alu_working with an arithmetic instruction's
\* opcode on acc and buf_reg.
DecLoad == InDecode /\ LatchAcc("DIRECT_ACC_LOAD", instr.arg)

DecAlu == Alu("ADD", <<"ACC">>)

DecArithmetic ==
    /\ InDecode
    /\ instr.opcode \in arithmetic_operations
    /\ Alu(instr.opcode, <<"ACC", "BUF">>)

\* decode_interrupt_commands, at any point of the decode pass
DecInterrupt ==
    /\ pc = "decode"
    /\ err = "none"
    /\ instr.opcode \in InterruptOps
    /\ ~applied
    /\ interrupt_command(instr.opcode, instr.arg)
    /\ applied' = TRUE
    /\ last' = [call |-> "interrupt_command", opcode |-> instr.opcode]
    /\ UNCHANGED <<dpvars, instructions, ip, instr, _tick, instr_counter,
                   int_rq, time, pc, steps, signal, saved, err, result, raised,
                   serviced>>

\* The end of the decode pass.  decode_flow_commands returns the IP signal;
\* CALL and IRET set ip themselves: CALL saves ip and jumps to its argument,
\* IRET restores the ip the interrupt service saved.  An opcode that no
\* branch dispatches has no decode pass at all.
DecodeEnd ==
    /\ pc = "decode"
    /\ err = "none"
    /\ instr.opcode \in InterruptOps => applied
    /\ instr.opcode \notin Dispatched => steps = 0
    /\ signal' \in IF instr.opcode \in FlowOps THEN Signals ELSE {"NEXT_IP"}
    /\ CASE instr.opcode = "CALL" ->
              /\ saved' = Append(saved, ip)
              /\ ip' = instr.arg
              /\ UNCHANGED <<in_interruption, err>>
         [] instr.opcode = "IRET" /\ saved # <<>> ->
              /\ ip' = saved[Len(saved)]
              /\ saved' = SubSeq(saved, 1, Len(saved) - 1)
              /\ in_interruption' = FALSE
              /\ err' = err
         [] instr.opcode = "IRET" /\ saved = <<>> ->
              /\ err' = "InterruptStateError"
              /\ UNCHANGED <<ip, saved, in_interruption>>
         [] OTHER -> UNCHANGED <<ip, saved, in_interruption, err>>
    /\ pc' = IF err' = "none" THEN "latch" ELSE "error"
    /\ last' = Call("decode_end")
    /\ UNCHANGED <<data_memory, acc, buf_reg, stack_pointer, address_reg,
                   memory_out, flags, alu_out, instructions, instr, _tick,
                   int_vector, instr_counter, ei, int_rq, tmvars, steps, applied,
                   result, raised, serviced>>

\* an execute() that latches the IP after every instruction
latches_ip_always(opcode) == TRUE

\* the instructions after whose dispatch execute() calls signal_latch_ip
latches_ip(opcode) == opcode \notin {"CALL", "IRET"}

signal_latch_ip(sig, arg) ==
    ip' = CASE sig = "NEXT_IP" -> ip + 1
            [] sig = "JMP_ARG" -> arg
            [] sig = "DATA_IP" -> alu_out

LatchIp ==
    /\ pc = "latch"
    /\ IF latches_ip(instr.opcode)
       THEN signal_latch_ip(signal, instr.arg)
       ELSE ip' = ip
    /\ pc' = "check"
    /\ last' = Call("signal_latch_ip")
    /\ UNCHANGED <<dpvars, instructions, instr, _tick, int_vector,
                   instr_counter, ei, int_rq, tmvars, steps, signal, applied,
                   saved, err, result, raised, serviced>>

\* a check that services a request only while interrupts are enabled
service_due_if_enabled(rq, enabled) == rq /\ enabled

\* whether the interrupt check forces the interrupt-service pass
service_due(rq, enabled) == rq

\* The interrupt-service pass of the decoder: it takes the request (int_rq
\* is cleared), saves the ip to return to and jumps to the vector.
interrupt_service ==
    /\ int_rq' = FALSE
    /\ saved' = Append(saved, ip)
    /\ ip' = int_vector
    /\ in_interruption' = TRUE
    /\ serviced' = serviced + 1

InterruptCheck ==
    /\ pc = "check"
    /\ IF service_due(int_rq, ei)
       THEN interrupt_service
       ELSE UNCHANGED <<int_rq, saved, ip, in_interruption, serviced>>
    /\ pc' = "fetch"
    /\ last' = Call("interrupt_check")
    /\ UNCHANGED <<data_memory, acc, buf_reg, stack_pointer, address_reg,
                   memory_out, flags, alu_out, instructions, instr, _tick,
                   int_vector, instr_counter, ei, tmvars, steps, signal, applied,
                   err, result, raised>>

I(opcode, arg) == [opcode |-> opcode, arg |-> arg]

\* The programs run: straight-line programs ending in HALT, programs that
\* run off their end or jump, a program with an opcode no branch dispatches,
\* and programs that set the timer and enable interrupts, their handler (an
\* IRET) at the default vector 0.
StraightLine ==
    {[code |-> SubSeq(<<I("LOAD", 1), I("ADD", 0), I("CMP", 0)>>, 1, k)
                  \o <<I("HALT", 0)>>, start |-> 0] : k \in 0..3}
Jumping ==
    {[code |-> <<I("ADD", 0)>>, start |-> 0],
     [code |-> <<I("LOAD", 2), I("JMP", 0 - 1), I("HALT", 0)>>, start |-> 0],
     [code |-> <<I("CALL", 2), I("HALT", 0), I("DIV", 0), I("HALT", 0)>>,
      start |-> 0],
     [code |-> <<I("NOP", 0), I("HALT", 0)>>, start |-> 0]}
Interrupting ==
    {[code |-> <<I("IRET", 0), I("TIMER", d), I("EI", 0), I("ADD", 0),
                 I("HALT", 0)>>, start |-> 1] : d \in 1..MaxDelay}
    \cup {[code |-> <<I("IRET", 0), I("EI", 0), I("HALT", 0)>>, start |-> 1],
          [code |-> <<I("HALT", 0), I("TIMER", 1), I("EI", 0), I("DI", 0),
                      I("HALT", 0)>>, start |-> 1]}
Programs == StraightLine \cup Jumping \cup Interrupting

\* DataPath.__init__, ControlUnit.__init__ and Timer.__init__
Init ==
    /\ data_memory = InitMemory
    /\ acc = 0
    /\ buf_reg = 0
    /\ stack_pointer = 0
    /\ address_reg = 0
    /\ memory_out = 0
    /\ flags = InitFlags
    /\ alu_out = 0
    /\ in_interruption = FALSE
    /\ \E p \in Programs : instructions = p.code /\ ip = p.start
    /\ instr = NoInstr
    /\ _tick = 0
    /\ int_vector = 0
    /\ instr_counter = 0
    /\ ei = FALSE
    /\ int_rq = FALSE
    /\ time = InitTime
    /\ timer_delay = InitDelay
    /\ pc = "fetch"
    /\ steps = 0
    /\ signal = "NEXT_IP"
    /\ applied = FALSE
    /\ saved = <<>>
    /\ err = "none"
    /\ result = <<>>
    /\ last = Call("none")
    /\ raised = 0
    /\ serviced = 0

Next ==
    \/ Fetch
    \/ SigTick
    \/ DecLoad
    \/ DecAlu
    \/ DecArithmetic
    \/ DecInterrupt
    \/ DecodeEnd
    \/ LatchIp
    \/ InterruptCheck

Spec == Init /\ [][Next]_vars

----------------------------------------------------------------------------
\* SpecDP: the last two signals of the decode pass of an ADD instruction, any
\* of tick(), the two latches of acc and address_reg (loaded directly or from
\* alu_out), a memory read or write, the latches of buf_reg and
\* stack_pointer and alu_working; or, the pass over, the IP update of
\* execute().  The datapath's registers, flags and memory cells hold values
\* earlier signals left there, the address register ranging from one below
\* -capacity to capacity.

Addresses == (0 - MemoryCapacity - 1)..MemoryCapacity
Selectors == {"DIRECT_ACC_LOAD", "DIRECT_ADDRESS_LOAD"}
DPOperations == {"ADD", "DEC", "CMP"}
DPValves == {<<"ACC">>, <<"BUF">>, <<"MEM">>, <<"ACC", "BUF">>,
             <<"BUF", "ACC">>, <<"BUF", "MEM">>}

DPLatchAcc == \E sel \in Selectors : LatchAcc(sel, 1)

DPLatchAddress == \E sel \in Selectors, load \in Addresses :
                      LatchAddress(sel, load)

DPMemory == \E operation \in {"READ", "WRITE"} : Memory(operation)

DPLatchRegs == \E regs \in {{"BUF_LATCH"}, {"STACK_LATCH"}} : LatchRegs(regs)

DPAlu == \E operation \in DPOperations, valves \in DPValves :
             Alu(operation, valves)

InitDP ==
    /\ data_memory \in {InitMemory, [a \in 0..(MemoryCapacity - 1) |-> a + 1]}
    /\ acc \in {0 - 1, 0}
    /\ buf_reg \in {0, MaxVal}
    /\ stack_pointer = 0
    /\ address_reg \in Addresses
    /\ memory_out = 0
    /\ flags \in AllFlags
    /\ alu_out \in {0, 0 - 1}
    /\ in_interruption = FALSE
    /\ instructions = <<[opcode |-> "ADD", arg |-> 0], [opcode |-> "HALT", arg |-> 0]>>
    /\ ip = 0
    /\ instr = instructions[1]
    /\ _tick = 1
    /\ int_vector = 0
    /\ instr_counter = 1
    /\ ei = FALSE
    /\ int_rq = FALSE
    /\ time = InitTime
    /\ timer_delay = InitDelay
    /\ pc \in {"decode", "latch"}
    /\ steps = MaxSteps - 2
    /\ signal = "NEXT_IP"
    /\ applied = FALSE
    /\ saved = <<>>
    /\ err = "none"
    /\ result = <<>>
    /\ last = Call("none")
    /\ raised = 0
    /\ serviced = 0

NextDP ==
    \/ SigTick
    \/ DPLatchAcc
    \/ DPLatchAddress
    \/ DPMemory
    \/ DPLatchRegs
    \/ DPAlu
    \/ LatchIp

SpecDP == InitDP /\ [][NextDP]_vars

----------------------------------------------------------------------------
\* Claims about the ALU (SpecALU)

IsAluCall(c) == c.call = "alu_working"

\* q is the quotient of a by b # 0 rounded toward negative infinity
IsFloorQuotient(a, b, q) ==
    IF b > 0 THEN q * b <= a /\ a < (q + 1) * b
             ELSE q * b >= a /\ a > (q + 1) * b

\* r is what the binary operation gives for the operands a and b
IsBinaryResult(operation, a, b, r) ==
    CASE operation = "ADD" -> r = a + b
      [] operation = "SUB" -> r = a - b
      [] operation = "MUL" -> r = a * b
      [] operation = "DIV" -> b # 0 /\ IsFloorQuotient(a, b, r)
      [] operation = "REM" ->
            /\ b # 0
            /\ \E q \in (0 - Abs(a) - 1)..(Abs(a) + 1) :
                   IsFloorQuotient(a, b, q) /\ r = a - q * b

\* C5: alu_working with DIV or REM and a second operand whose bus value is 0
\* raises an arithmetic error and leaves acc, buf_reg, stack_pointer,
\* address_reg, alu_out, memory_out and flags as they were before the call.
C5_DivZeroLeavesState ==
    [][(/\ IsAluCall(last')
        /\ last'.operation \in {"DIV", "REM"}
        /\ Len(last'.valves) > 1
        /\ get_bus_value(last'.valves[2]) = 0)
       => (/\ err' = "ZeroDivisionError"
           /\ acc' = acc
           /\ buf_reg' = buf_reg
           /\ stack_pointer' = stack_pointer
           /\ address_reg' = address_reg
           /\ alu_out' = alu_out
           /\ memory_out' = memory_out
           /\ flags' = flags)]_vars

\* C10: after alu_working with ADD, SUB, MUL, DIV or REM and two operand
\* selectors (the divisor not 0), alu_out is the operation applied to the bus
\* values of the two operands, DIV and REM rounding toward negative infinity.
C10_BinaryResult ==
    [][\A operation \in Binary, valves \in Valves2 :
          (/\ last' = [call |-> "alu_working", operation |-> operation,
                       valves |-> valves]
           /\ err' = "none")
          => IsBinaryResult(operation, get_bus_value(valves[1]),
                            get_bus_value(valves[2]), alu_out')]_vars

\* a DIV of a negative by a positive operand that does not divide it was made
C10_Witness ==
    /\ last = [call |-> "alu_working", operation |-> "DIV",
               valves |-> <<"ACC", "BUF">>]
    /\ acc = 0 - 1
    /\ buf_reg = 2
    /\ alu_out = 0 - 1
    /\ err = "none"

AluCall(operation, valves) ==
    [call |-> "alu_working", operation |-> operation, valves |-> valves]

\* C11: alu_working with CMP and two operands leaves alu_out at the first
\* operand's bus value and the flags at z = (operand 1 = operand 2) and
\* n = (operand 1 < operand 2), also when ACC is among the operands and the
\* accumulator snapshot of the flags was taken first.
C11_CompareSetsFlagsOnly ==
    [][\A valves \in Valves2 :
          last' = AluCall("CMP", valves)
          => LET a == get_bus_value(valves[1])
                 b == get_bus_value(valves[2])
             IN  /\ alu_out' = a
                 /\ flags' = [z |-> a = b, n |-> a < b]
                 /\ err' = "none"]_vars

\* acc = 0 was compared with buf_reg = 1: the flags are the comparison's,
\* not the snapshot's (z true, n false)
C11_Witness ==
    /\ last = AluCall("CMP", <<"ACC", "BUF">>)
    /\ acc = 0
    /\ buf_reg = 1
    /\ alu_out = 0
    /\ flags = [z |-> FALSE, n |-> TRUE]

\* C17: when ACC is among the operands of alu_working and the operation is
\* not CMP, the flags afterwards are the snapshot taken before the operation:
\* z = (acc = 0) and n = (bus value of the first operand < 0), whatever the
\* operation's result.
C17_FlagsAreSnapshot ==
    [][\A operation \in arithmetic_operations \ {"CMP"}, valves \in Valves :
          (last' = AluCall(operation, valves) /\ "ACC" \in Range(valves))
          => flags' = [z |-> acc = 0, n |-> get_bus_value(valves[1]) < 0]]_vars

\* DEC of acc = 1 gave alu_out = 0 with z false
C17_Witness ==
    /\ last = AluCall("DEC", <<"ACC">>)
    /\ acc = 1
    /\ alu_out = 0
    /\ flags = [z |-> FALSE, n |-> FALSE]

\* C18: for INC, DEC and MOVH alu_out after alu_working is the first operand
\* plus 1, minus 1 and times 2^24, with or without a second operand selector
\* and whatever its bus value, 0 included.
C18_UnaryResult ==
    [][\A operation \in Unary, valves \in Valves :
          last' = AluCall(operation, valves)
          => /\ err' = "none"
             /\ alu_out' =
                    CASE operation = "INC" -> get_bus_value(valves[1]) + 1
                      [] operation = "DEC" -> get_bus_value(valves[1]) - 1
                      [] operation = "MOVH" ->
                            get_bus_value(valves[1]) * 16777216]_vars

\* MOVH of acc = 1 was made with a second operand whose bus value is 0
C18_Witness ==
    /\ last = AluCall("MOVH", <<"ACC", "BUF">>)
    /\ acc = 1
    /\ buf_reg = 0
    /\ alu_out = 16777216
    /\ err = "none"

\* C20: alu_working with one operand selector and ADD, SUB, MUL, DIV, REM or
\* CMP executes no operation: alu_out becomes the operand's bus value, nothing
\* is raised, and the flags change only by the accumulator snapshot when the
\* operand is ACC.
C20_SingleOperandIsLoad ==
    [][\A operation \in Binary \cup {"CMP"}, valves \in Valves1 :
          last' = AluCall(operation, valves)
          => /\ alu_out' = get_bus_value(valves[1])
             /\ err' = "none"
             /\ flags' = IF valves[1] = "ACC"
                         THEN [z |-> acc = 0, n |-> acc < 0]
                         ELSE flags]_vars

\* DIV was called on buf_reg alone: alu_out is buf_reg and nothing was raised
C20_Witness ==
    /\ last = AluCall("DIV", <<"BUF">>)
    /\ buf_reg = 2
    /\ alu_out = 2
    /\ err = "none"

----------------------------------------------------------------------------
\* Claims about the datapath signals (SpecDP)

MemoryCall(operation) == [call |-> "memory_manager", operation |-> operation]
InRange == 0..(MemoryCapacity - 1)

\* C12: a memory read or write with address_reg outside 0..capacity-1, below
\* zero or at and above the capacity, fails with a bounds error and leaves
\* data_memory and memory_out as they were.
C12_OutOfRangeFails ==
    [][\A operation \in {"READ", "WRITE"} :
          (last' = MemoryCall(operation) /\ address_reg \notin InRange)
          => /\ err' = "IndexError"
             /\ data_memory' = data_memory
             /\ memory_out' = memory_out]_vars

\* C13: the write/read round trip, step by step: a WRITE at an in-range
\* address a stores alu_out in cell a and changes no other cell; a READ at a
\* puts cell a in memory_out and changes no cell; and between the two nothing
\* but a WRITE with address_reg = a changes cell a, so the READ finds the
\* value written.
C13_WriteReadRoundTrip ==
    [][\A a \in InRange :
          /\ (last' = MemoryCall("WRITE") /\ address_reg = a)
             => data_memory' = [data_memory EXCEPT ![a] = alu_out]
          /\ (last' = MemoryCall("READ") /\ address_reg = a)
             => (memory_out' = data_memory[a] /\ data_memory' = data_memory)
          /\ data_memory'[a] # data_memory[a]
             => (last' = MemoryCall("WRITE") /\ address_reg = a)]_vars

\* C16: flags change only in an alu_working call, and only when ACC is among
\* its operand selectors or it is a CMP of two operands; every other signal,
\* tick() and the IP update leave flags as they were.
C16_FlagsChangeOnlyInAlu ==
    [][flags' # flags
       => \E operation \in arithmetic_operations, valves \in Valves :
             /\ last' = AluCall(operation, valves)
             /\ "ACC" \in Range(valves)
                \/ (operation = "CMP" /\ Len(valves) > 1)]_vars

\* an ADD of buf_reg and memory_out computed its sum and left both flags set
C16_Witness ==
    /\ last = AluCall("ADD", <<"BUF", "MEM">>)
    /\ buf_reg = MaxVal
    /\ memory_out = 1
    /\ alu_out = MaxVal + 1
    /\ flags = [z |-> TRUE, n |-> TRUE]
    /\ err = "none"

----------------------------------------------------------------------------
\* Claims about tick() and the Timer (SpecTimer)

\* C3: with timer_delay = 0 every tick() completes normally and int_rq is
\* never set, whether ei is true or false.
C3_ZeroDelayDisablesTimer ==
    timer_delay = 0 => (err = "none" /\ ~int_rq)

\* C4 as claimed: for timer_delay = d > 0 a tick() with ei false leaves time
\* and int_rq unchanged, a tick() with ei true adds 1 to time and raises a
\* request exactly when the new time is a multiple of d; and with ei true at
\* every tick since time = -2, the requests are raised on the second tick
\* and every d-th tick after it, and on no other tick.
C4_FirstRequestOnSecondTick ==
    [][(_tick' # _tick /\ timer_delay > 0)
       => /\ ~ei => (time' = time /\ int_rq' = int_rq /\ raised' = raised)
          /\ ei => /\ time' = time + 1
                   /\ (raised' = raised + 1) <=> (time' % timer_delay = 0)
                   /\ int_rq' = (int_rq \/ time' % timer_delay = 0)
          /\ (ei /\ time = InitTime + _tick)
             => ((raised' = raised + 1)
                 <=> (_tick' >= 2 /\ (_tick' - 2) % timer_delay = 0))]_vars

\* C4 amended: the same, the requests being raised on the second tick and
\* every d-th tick after it and, for d = 1, on the first tick as well.
C4_RequestEveryDelayTicks ==
    [][(_tick' # _tick /\ timer_delay > 0)
       => /\ ~ei => (time' = time /\ int_rq' = int_rq /\ raised' = raised)
          /\ ei => /\ time' = time + 1
                   /\ (raised' = raised + 1) <=> (time' % timer_delay = 0)
                   /\ int_rq' = (int_rq \/ time' % timer_delay = 0)
          /\ (ei /\ time = InitTime + _tick)
             => ((raised' = raised + 1)
                 <=> \/ _tick' >= 2 /\ (_tick' - 2) % timer_delay = 0
                     \/ _tick' = 1 /\ timer_delay = 1)]_vars

\* with a period of 2 and ei true at every tick, requests were raised on the
\* second and on the fourth tick and on no other of the first five
C4_Witness ==
    /\ timer_delay = 2
    /\ _tick = 5
    /\ time = InitTime + 5
    /\ raised = 2
    /\ int_rq

\* C9: every tick() leaves alu_out and memory_out at 0, whatever they held,
\* so that nothing written to them before the tick is read after it.
C9_TickClearsLatches ==
    [][_tick' # _tick => (alu_out' = 0 /\ memory_out' = 0)]_vars

\* the first tick() came after alu_working and a memory read had written
\* both latches
C9_Witness ==
    /\ last = Call("tick")
    /\ _tick = 1
    /\ steps = 2
    /\ alu_out = 0
    /\ memory_out = 0

----------------------------------------------------------------------------
\* Claims about execute() (Spec)

\* C1: every interrupt request is serviced exactly once: each timer hit is
\* answered by one interrupt-service pass that clears int_rq, so that at
\* every fetch as many passes have been taken as requests were raised and
\* none is pending.
C1_EveryRequestServicedOnce ==
    pc \in {"fetch", "done"} => (serviced = raised /\ ~int_rq)

\* C2: the interrupt-service pass is taken only at the interrupt check, after
\* the instruction's dispatch and IP update, never between its fetch and its
\* IP update; a request pending at the check is serviced by that check,
\* whatever ei is by then, so that no request is pending at a fetch.
C2_ServicedAtCheck ==
    [][/\ serviced' # serviced
          => (pc = "check" /\ pc' = "fetch" /\ int_rq /\ ~int_rq'
              /\ serviced' = serviced + 1)
       /\ (pc = "check" /\ int_rq) => serviced' = serviced + 1
       /\ pc' = "fetch" => ~int_rq']_vars

\* a request raised by a tick of the instruction just dispatched was serviced
\* at its check: control is at the vector, the return ip saved
C2_Witness ==
    /\ pc = "fetch"
    /\ last = Call("interrupt_check")
    /\ serviced = 1
    /\ raised = 1
    /\ in_interruption
    /\ ip = int_vector
    /\ Len(saved) = 1

\* C6: execute() returns only on fetching HALT, and that fetch changes
\* nothing: no tick, no dispatch, no IP update; registers, flags, memory and
\* counters stay, and the tick count returned is _tick as it was.
C6_HaltEndsLoopAtOnce ==
    [][(pc' = "done" /\ pc # "done")
       => /\ pc = "fetch"
          /\ IndexInRange(ip, NumInstr)
          /\ AtIp.opcode = "HALT"
          /\ UNCHANGED <<dpvars, instructions, ip, _tick, int_vector,
                         instr_counter, ei, int_rq, tmvars, steps, signal,
                         saved, raised, serviced>>
          /\ result'[2] = _tick]_vars

\* execute() returned after instructions that ticked and loaded acc
C6_Witness ==
    /\ pc = "done"
    /\ err = "none"
    /\ _tick = 2
    /\ acc = 1
    /\ result[2] = 2

IsStraightLine == \E p \in StraightLine : instructions = p.code

\* C7 as claimed: a straight-line program of N instructions, the last one
\* HALT, returns the instruction count N.
C7_CountIncludesHalt ==
    (pc = "done" /\ IsStraightLine) => result[1] = NumInstr

\* C7 amended: it returns N - 1, the terminating HALT not being counted.
C7_CountExcludesHalt ==
    (pc = "done" /\ IsStraightLine) => result[1] = NumInstr - 1

\* the program of four instructions returned the count 3
C7_Witness ==
    /\ pc = "done"
    /\ IsStraightLine
    /\ NumInstr = 4
    /\ result[1] = 3

\* C8: at every fetch outside interrupt service, ip is an index of the
\* instruction list: 0 <= ip < number of instructions.
C8_IpValidAtFetch ==
    (pc = "fetch" /\ ~in_interruption) => (0 <= ip /\ ip < NumInstr)

\* C14: an instruction whose opcode is not HALT and is dispatched by none of
\* the seven branches makes the run fail: execution never goes on past it to
\* the IP update, the interrupt check or the next fetch.
C14_UnknownOpcodeFails ==
    instr.opcode \notin (Dispatched \cup {"HALT", "none"})
        => pc \in {"decode", "error"}

\* C15: after the dispatch of an instruction other than CALL and IRET the
\* control unit applies one IP update, ip + 1 for NEXT_IP, the argument for
\* JMP_ARG, alu_out for DATA_IP, NEXT_IP being the only signal outside the
\* flow instructions; for CALL and IRET it applies none; the interrupt check
\* comes only after this step; and ip changes nowhere else but in the
\* decoder's CALL and IRET and in the interrupt service.
C15_OneIpUpdate ==
    [][/\ pc = "latch"
          => /\ pc' = "check"
             /\ instr.opcode \notin FlowOps => signal = "NEXT_IP"
             /\ ip' = IF instr.opcode \in {"CALL", "IRET"} THEN ip
                      ELSE CASE signal = "NEXT_IP" -> ip + 1
                             [] signal = "JMP_ARG" -> instr.arg
                             [] signal = "DATA_IP" -> alu_out
       /\ pc' = "check" => pc = "latch"
       /\ serviced' # serviced => pc = "check"
       /\ (ip' # ip /\ pc # "latch")
          => \/ pc = "decode" /\ instr.opcode \in {"CALL", "IRET"}
             \/ pc = "check" /\ int_rq]_vars

\* a JMP whose decode returned DATA_IP set ip to alu_out = 2
C15_Witness ==
    /\ pc = "check"
    /\ last = Call("signal_latch_ip")
    /\ instr.opcode = "JMP"
    /\ signal = "DATA_IP"
    /\ alu_out = 2
    /\ ip = 2

\* C19: the interrupt check looks at int_rq alone: a request pending at the
\* check is serviced there whatever ei is by then; and int_rq is set only by
\* a tick() that runs while ei is true.
C19_CheckIgnoresEi ==
    [][/\ (pc = "check" /\ int_rq)
          => (serviced' = serviced + 1 /\ ip' = int_vector /\ ~int_rq')
       /\ (int_rq' /\ ~int_rq)
          => (ei /\ _tick' = _tick + 1 /\ raised' = raised + 1)]_vars

\* the request raised by a tick of DI's decode pass was serviced at DI's
\* check, after DI had cleared ei
C19_Witness ==
    /\ pc = "fetch"
    /\ last = Call("interrupt_check")
    /\ instr.opcode = "DI"
    /\ ~ei
    /\ serviced = 1
    /\ in_interruption

====
